---------------------------- MODULE Spec2Model ----------------------------
(***************************************************************************)
(* Model of the bn254 arithmetic core: the prime-field element Fp          *)
(* (src/src/fp.rs) and the Jacobian curve point G1 (src/src/g1.rs).        *)
(*                                                                         *)
(* The source fixes one 254-bit prime modulus P (fp.rs:6-12).  TLC's       *)
(* integers are 32 bits wide, so the modulus is a variable here, chosen    *)
(* once in the initial state among the small primes q >= 5 and never       *)
(* changed: every formula is checked over each of these prime fields.      *)
(* The arithmetic itself is BigUint/BigInt in the source (no overflow),    *)
(* and is exact here as well.                                              *)
(*                                                                         *)
(* A Rust panic (panic!, BigUint subtraction underflow, division by zero,  *)
(* unwrap on None) unwinds through every caller: it is the value Panic,    *)
(* which every operation passes on.                                        *)
(***************************************************************************)
EXTENDS Integers, Sequences, FiniteSets, TLC

VARIABLES
    P,      \* the prime modulus (lazy_static P), fixed by Init
    pc,     \* "idle" | "inv" (inside the loop of Fp::inv) | "done"
    op,     \* the operation called last
    args,   \* its operands
    out,    \* its outcome: [kind |-> "value" | "panic", val |-> ...]
    inv     \* the locals a, m, x0, x1 of Fp::inv, kept until the caller returns

vars == <<P, pc, op, args, out, inv>>

---------------------------------------------------------------------------
(* Bounds of the model *)

\* the field operations are checked over every prime in 5..MaxFieldModulus
MaxFieldModulus == 40
\* the curve operations are checked over every prime in 5..MaxCurveModulus
MaxCurveModulus == 11
\* Fp::new is applied to every integer in 0..(RawSpan * P)
RawSpan == 3
\* mul_u128 is applied to every scalar in 0..MaxScalar
MaxScalar == 8

IsPrime(q) == q >= 2 /\ \A d \in 2..(q - 1) : q % d # 0

FieldModuli == {q \in 5..MaxFieldModulus : IsPrime(q)}
CurveModuli == {q \in 5..MaxCurveModulus : IsPrime(q)}

\* the reduced representations: the values of Fp.n the operations produce
Reduced == 0..(P - 1)

---------------------------------------------------------------------------
(* Fp: src/src/fp.rs *)

\* the outcome of a panicking field operation
Panic == -1

Panicked(n) == n = Panic

\* Fp::new: n % P
FpNew(n) == IF Panicked(n) THEN Panic ELSE n % P

FpZero == 0

FpOne == 1

\* BigUint subtraction: panics when the difference is negative
BigUintSub(x, y) ==
    IF Panicked(x) \/ Panicked(y) THEN Panic
    ELSE IF x < y THEN Panic ELSE x - y

\* impl Add for Fp
FpAdd(self, rhs) ==
    IF Panicked(self) \/ Panicked(rhs) THEN Panic ELSE FpNew(self + rhs)

\* a sub without the branch on self.n >= rhs.n
FpSubNoBranch(self, rhs) == FpNew(BigUintSub(self, rhs))

\* impl Sub for Fp
FpSub(self, rhs) ==
    IF Panicked(self) \/ Panicked(rhs) THEN Panic
    ELSE LET res == IF self >= rhs
                    THEN BigUintSub(self, rhs)
                    ELSE BigUintSub(self + P, rhs)
         IN  FpNew(res)

\* impl Mul for Fp
FpMul(self, rhs) ==
    IF Panicked(self) \/ Panicked(rhs) THEN Panic ELSE FpNew(self * rhs)

\* impl Neg for Fp
FpNeg(self) ==
    IF Panicked(self) THEN Panic
    ELSE IF self = 0 THEN FpZero ELSE FpNew(BigUintSub(P, self))

\* BigUint::modpow(exp, modulus): square and multiply
RECURSIVE ModPow(_, _, _)
ModPow(b, e, modulus) ==
    IF e = 0 THEN 1 % modulus
    ELSE LET h == ModPow((b * b) % modulus, e \div 2, modulus)
         IN  IF e % 2 = 1 THEN (b * h) % modulus ELSE h

\* Fp::pow
FpPow(self, exp) ==
    IF Panicked(self) THEN Panic ELSE FpNew(ModPow(self, exp, P))

\* Fp::inv, lines 34-37: the locals before the loop
InvLocals(self) == [a |-> self, m |-> P, x0 |-> 0, x1 |-> 1]

\* Fp::inv, line 44: BigInt division panics on a zero divisor
InvDivByZero(s) == s.m = 0

\* Fp::inv, lines 44-50: one pass of the loop body
InvBody(s) ==
    LET q == s.a \div s.m
    IN  [a |-> s.m, m |-> s.a % s.m, x0 |-> s.x1 - q * s.x0, x1 |-> s.x0]

\* lines 53-57 without the correction of a negative coefficient
InvResultNoCorrection(s) ==
    IF s.x1 < 0 THEN Panic ELSE FpNew(s.x1)

\* Fp::inv, lines 53-57: the sign correction, to_biguint().unwrap(), Fp::new
InvResult(s) ==
    LET x1 == IF s.x1 < 0 THEN s.x1 + P ELSE s.x1
    IN  IF x1 < 0 THEN Panic ELSE FpNew(x1)

\* Fp::inv, lines 43-51: the loop, run to its end
RECURSIVE InvLoop(_)
InvLoop(s) ==
    IF s.a = 1 THEN InvResult(s)
    ELSE IF InvDivByZero(s) THEN Panic
    ELSE InvLoop(InvBody(s))

\* Fp::inv as one call
FpInv(self) ==
    IF Panicked(self) THEN Panic
    ELSE IF self = 0 THEN Panic
    ELSE InvLoop(InvLocals(self))

---------------------------------------------------------------------------
(* The calls of the field operations *)

\* what a call hands back to its caller
Outcome(v) ==
    IF v = Panic THEN [kind |-> "panic", val |-> Panic]
    ELSE [kind |-> "value", val |-> v]

NoOutcome == [kind |-> "none", val |-> 0]

NoLocals == [a |-> 0, m |-> 0, x0 |-> 0, x1 |-> 0]

NoArgs == [self |-> 0, rhs |-> 0]

Finish(name, operands, v) ==
    /\ pc' = "done"
    /\ op' = name
    /\ args' = operands
    /\ out' = Outcome(v)
    /\ UNCHANGED <<P, inv>>

CallFpNew ==
    /\ pc = "idle"
    /\ \E n \in 0..(RawSpan * P) :
           Finish("new", [self |-> n, rhs |-> 0], FpNew(n))

CallFpZero ==
    /\ pc = "idle"
    /\ Finish("zero", NoArgs, FpZero)

CallFpOne ==
    /\ pc = "idle"
    /\ Finish("one", NoArgs, FpOne)

CallFpAdd ==
    /\ pc = "idle"
    /\ \E x \in Reduced, y \in Reduced :
           Finish("add", [self |-> x, rhs |-> y], FpAdd(x, y))

CallFpSub ==
    /\ pc = "idle"
    /\ \E x \in Reduced, y \in Reduced :
           Finish("sub", [self |-> x, rhs |-> y], FpSub(x, y))

CallFpMul ==
    /\ pc = "idle"
    /\ \E x \in Reduced, y \in Reduced :
           Finish("mul", [self |-> x, rhs |-> y], FpMul(x, y))

CallFpNeg ==
    /\ pc = "idle"
    /\ \E x \in Reduced :
           Finish("neg", [self |-> x, rhs |-> 0], FpNeg(x))

CallFpPow ==
    /\ pc = "idle"
    /\ \E x \in Reduced, e \in 0..P :
           Finish("pow", [self |-> x, rhs |-> e], FpPow(x, e))

\* Fp::inv, lines 34-41: the locals are set, and zero panics
InvEnter ==
    /\ pc = "idle"
    /\ \E x \in Reduced :
           /\ op' = "inv"
           /\ args' = [self |-> x, rhs |-> 0]
           /\ IF x = 0
              THEN /\ pc' = "done"
                   /\ out' = Outcome(Panic)
                   /\ inv' = NoLocals
              ELSE /\ pc' = "inv"
                   /\ out' = NoOutcome
                   /\ inv' = InvLocals(x)
    /\ UNCHANGED P

\* Fp::inv, lines 43-51: one pass of the loop
InvStep ==
    /\ pc = "inv"
    /\ inv.a # 1
    /\ IF InvDivByZero(inv)
       THEN /\ pc' = "done"
            /\ out' = Outcome(Panic)
            /\ inv' = NoLocals
       ELSE /\ inv' = InvBody(inv)
            /\ UNCHANGED <<pc, out>>
    /\ UNCHANGED <<P, op, args>>

\* Fp::inv, lines 53-57: the loop is left, the result is returned
InvExit ==
    /\ pc = "inv"
    /\ inv.a = 1
    /\ pc' = "done"
    /\ out' = Outcome(InvResult(inv))
    /\ UNCHANGED <<P, op, args, inv>>

\* the caller has taken the outcome (operands and results are values that
\* simply go out of use); the next call may follow
Return ==
    /\ pc = "done"
    /\ pc' = "idle"
    /\ op' = "none"
    /\ args' = NoArgs
    /\ out' = NoOutcome
    /\ inv' = NoLocals
    /\ UNCHANGED P

FpInit ==
    /\ P \in FieldModuli
    /\ pc = "idle"
    /\ op = "none"
    /\ args = NoArgs
    /\ out = NoOutcome
    /\ inv = NoLocals

FpNext ==
    \/ CallFpNew
    \/ CallFpZero
    \/ CallFpOne
    \/ CallFpAdd
    \/ CallFpSub
    \/ CallFpMul
    \/ CallFpNeg
    \/ CallFpPow
    \/ InvEnter
    \/ InvStep
    \/ InvExit
    \/ Return

\* a call that has started keeps running: the loop of Fp::inv is not preempted
\* for ever
FpSpec == FpInit /\ [][FpNext]_vars /\ WF_vars(InvStep) /\ WF_vars(InvExit)

---------------------------------------------------------------------------
(* G1: src/src/g1.rs *)

\* the points with reduced coordinates: every (X, Y, Z), on the curve or not
Points == [x : Reduced, y : Reduced, z : Reduced]

PointPanicked(p) == Panicked(p.x) \/ Panicked(p.y) \/ Panicked(p.z)

PairPanicked(xy) == Panicked(xy[1]) \/ Panicked(xy[2])

\* G1::infinity
G1Infinity == [x |-> FpZero, y |-> FpOne, z |-> FpZero]

\* G1::is_infinity
IsInfinity(p) == p.z = 0

\* to_affine without the test for infinity
ToAffineNoCheck(p) ==
    LET z_inv == FpInv(p.z)
        z2 == FpMul(z_inv, z_inv)
        z3 == FpMul(z2, z_inv)
    IN  <<FpMul(p.x, z2), FpMul(p.y, z3)>>

\* G1::to_affine
ToAffine(p) ==
    IF IsInfinity(p) THEN <<FpZero, FpZero>>
    ELSE LET z_inv == FpInv(p.z)
             z2 == FpMul(z_inv, z_inv)
             z3 == FpMul(z2, z_inv)
             x_aff == FpMul(p.x, z2)
             y_aff == FpMul(p.y, z3)
         IN  <<x_aff, y_aff>>

\* G1::is_on_curve panics where its call of to_affine does
IsOnCurvePanics(p) == ~IsInfinity(p) /\ PairPanicked(ToAffine(p))

\* G1::is_on_curve
IsOnCurve(p) ==
    IF IsInfinity(p) THEN TRUE
    ELSE LET xy == ToAffine(p)
             x == xy[1]
             y == xy[2]
         IN  FpMul(y, y) = FpAdd(FpMul(FpMul(x, x), x), FpNew(3))

\* G1::double
Double(p) ==
    IF IsInfinity(p) THEN p
    ELSE LET xx == FpMul(p.x, p.x)
             yy == FpMul(p.y, p.y)
             yyyy == FpMul(yy, yy)
             half == FpSub(FpSub(FpMul(FpAdd(p.x, yy), FpAdd(p.x, yy)), xx), yyyy)
             s == FpAdd(half, half)
             m == FpAdd(FpAdd(xx, xx), xx)
             x3 == FpSub(FpSub(FpMul(m, m), s), s)
             y3 == FpSub(FpSub(FpSub(FpSub(FpMul(m, FpSub(s, x3)),
                                           yyyy), yyyy), yyyy), yyyy)
             z3 == FpAdd(FpMul(p.y, p.z), FpMul(p.y, p.z))
         IN  [x |-> x3, y |-> y3, z |-> z3]

\* G1::add, lines 78-83: the terms both branches use
AddTerms(self, other) ==
    LET z1z1 == FpMul(self.z, self.z)
        z2z2 == FpMul(other.z, other.z)
    IN  [z1z1 |-> z1z1,
         z2z2 |-> z2z2,
         u1 |-> FpMul(self.x, z2z2),
         u2 |-> FpMul(other.x, z1z1),
         s1 |-> FpMul(FpMul(self.y, z2z2), other.z),
         s2 |-> FpMul(FpMul(other.y, z1z1), self.z)]

\* the branch u1 == u2 without the comparison of s1 and s2
AddSameXAlwaysDouble(self, t) == Double(self)

\* the branch u1 == u2 without the special case of doubling
AddSameXNeverDouble(self, t) == G1Infinity

\* G1::add, lines 85-91: the operands have the same affine x
AddSameX(self, t) ==
    IF t.s1 = t.s2 THEN Double(self) ELSE G1Infinity

\* lines 93-110 with s1 * j subtracted once from y3, not twice
AddGeneralOneS1J(self, other, t) ==
    LET h == FpSub(t.u2, t.u1)
        i == FpMul(FpAdd(h, h), FpAdd(h, h))
        j == FpMul(h, i)
        r == FpAdd(FpSub(t.s2, t.s1), FpSub(t.s2, t.s1))
        v == FpMul(t.u1, i)
        x3 == FpSub(FpSub(FpSub(FpMul(r, r), j), v), v)
        y3 == FpSub(FpMul(r, FpSub(v, x3)), FpMul(t.s1, j))
        z3 == FpMul(FpSub(FpSub(FpMul(FpAdd(self.z, other.z),
                                      FpAdd(self.z, other.z)),
                                t.z1z1), t.z2z2), h)
    IN  [x |-> x3, y |-> y3, z |-> z3]

\* G1::add, lines 93-110: the general case
AddGeneral(self, other, t) ==
    LET h == FpSub(t.u2, t.u1)
        i == FpMul(FpAdd(h, h), FpAdd(h, h))
        j == FpMul(h, i)
        r == FpAdd(FpSub(t.s2, t.s1), FpSub(t.s2, t.s1))
        v == FpMul(t.u1, i)
        x3 == FpSub(FpSub(FpSub(FpMul(r, r), j), v), v)
        y3 == FpSub(FpSub(FpMul(r, FpSub(v, x3)), FpMul(t.s1, j)),
                    FpMul(t.s1, j))
        z3 == FpMul(FpSub(FpSub(FpMul(FpAdd(self.z, other.z),
                                      FpAdd(self.z, other.z)),
                                t.z1z1), t.z2z2), h)
    IN  [x |-> x3, y |-> y3, z |-> z3]

\* G1::add
Add(self, other) ==
    IF IsInfinity(self) THEN other
    ELSE IF IsInfinity(other) THEN self
    ELSE LET t == AddTerms(self, other)
         IN  IF t.u1 = t.u2
             THEN AddSameX(self, t)
             ELSE AddGeneral(self, other, t)

\* the loop with base doubled before it is added
RECURSIVE MulLoopDoubleFirst(_, _, _)
MulLoopDoubleFirst(res, base, scalar) ==
    IF scalar > 0
    THEN MulLoopDoubleFirst(IF scalar % 2 = 1 THEN Add(res, Double(base)) ELSE res,
                            Double(base), scalar \div 2)
    ELSE res

\* G1::mul_u128, lines 118-124: the loop on res, base and scalar
RECURSIVE MulLoop(_, _, _)
MulLoop(res, base, scalar) ==
    IF scalar > 0
    THEN MulLoop(IF scalar % 2 = 1 THEN Add(res, base) ELSE res,
                 Double(base), scalar \div 2)
    ELSE res

\* G1::mul_u128
MulU128(self, scalar) == MulLoop(G1Infinity, self, scalar)

---------------------------------------------------------------------------
(* The calls of the curve operations *)

PointOutcome(p) ==
    IF PointPanicked(p) THEN [kind |-> "panic", val |-> Panic]
    ELSE [kind |-> "value", val |-> p]

PairOutcome(xy) ==
    IF PairPanicked(xy) THEN [kind |-> "panic", val |-> Panic]
    ELSE [kind |-> "value", val |-> xy]

FinishG1(name, operands, outcome) ==
    /\ pc' = "done"
    /\ op' = name
    /\ args' = operands
    /\ out' = outcome
    /\ UNCHANGED <<P, inv>>

CallInfinity ==
    /\ pc = "idle"
    /\ FinishG1("infinity", NoArgs, PointOutcome(G1Infinity))

CallIsInfinity ==
    /\ pc = "idle"
    /\ \E p \in Points :
           FinishG1("is_infinity", [self |-> p],
                    [kind |-> "value", val |-> IsInfinity(p)])

CallToAffine ==
    /\ pc = "idle"
    /\ \E p \in Points :
           FinishG1("to_affine", [self |-> p], PairOutcome(ToAffine(p)))

CallIsOnCurve ==
    /\ pc = "idle"
    /\ \E p \in Points :
           FinishG1("is_on_curve", [self |-> p],
                    IF IsOnCurvePanics(p)
                    THEN [kind |-> "panic", val |-> Panic]
                    ELSE [kind |-> "value", val |-> IsOnCurve(p)])

CallDouble ==
    /\ pc = "idle"
    /\ \E p \in Points :
           FinishG1("double", [self |-> p], PointOutcome(Double(p)))

CallAdd ==
    /\ pc = "idle"
    /\ \E p \in Points, q \in Points :
           FinishG1("add", [self |-> p, other |-> q], PointOutcome(Add(p, q)))

CallMulU128 ==
    /\ pc = "idle"
    /\ \E p \in Points, k \in 0..MaxScalar :
           FinishG1("mul_u128", [self |-> p, scalar |-> k],
                    PointOutcome(MulU128(p, k)))

Init ==
    /\ P \in CurveModuli
    /\ pc = "idle"
    /\ op = "none"
    /\ args = NoArgs
    /\ out = NoOutcome
    /\ inv = NoLocals

Next ==
    \/ CallInfinity
    \/ CallIsInfinity
    \/ CallToAffine
    \/ CallIsOnCurve
    \/ CallDouble
    \/ CallAdd
    \/ CallMulU128
    \/ Return

Spec == Init /\ [][Next]_vars

---------------------------------------------------------------------------
(* The field element: checked under FpSpec *)

InvCalled == pc = "done" /\ op = "inv"

\* C1: for every nonzero reduced a, Fp::inv(a) terminates (a call that is in
\* the loop leaves it) and returns a value whose product with a is Fp::one()
C1_InvCorrect ==
    /\ [](InvCalled /\ args.self # 0
            => out.kind = "value" /\ FpMul(args.self, out.val) = FpOne)
    /\ (pc = "inv" ~> pc = "done")

\* C1: the loop has run for an a > 1, has left a negative coefficient x1, and
\* the value x1 + P is returned
C1_Witness ==
    /\ InvCalled
    /\ args.self > 1
    /\ inv.x1 < 0
    /\ out.kind = "value"
    /\ out.val = inv.x1 + P

\* C2: Fp::inv on zero ends with a recoverable failure result, not a panic,
\* and never with a field value
C2_InvZeroRecoverable ==
    InvCalled /\ args.self = 0 => out.kind = "error"

FpOps == {"new", "zero", "one", "add", "sub", "mul", "neg", "pow", "inv"}

\* C3: every element made by new, zero, one, add, sub, mul, neg, pow and inv
\* (of a nonzero element) is a value in [0, P); sub in particular does not
\* underflow when the minuend is the smaller operand
C3_Reduced ==
    pc = "done" /\ op \in FpOps /\ ~(op = "inv" /\ args.self = 0)
        => out.kind = "value" /\ out.val \in Reduced

\* C3: a sub whose minuend is smaller than its subtrahend has returned
C3_Witness ==
    /\ pc = "done"
    /\ op = "sub"
    /\ args.self < args.rhs
    /\ out.kind = "value"
    /\ out.val = args.self + P - args.rhs

---------------------------------------------------------------------------
(* The curve point: checked under Spec *)

Called(name) == pc = "done" /\ op = name

Negated(p) == [x |-> p.x, y |-> FpNeg(p.y), z |-> p.z]

\* C4: to_affine, is_on_curve, double, add and mul_u128 never panic, whatever
\* the points (infinity, Y = 0, equal, mutually inverse) and the scalar
C4_G1Total ==
    pc = "done" /\ op \in {"to_affine", "is_on_curve", "double", "add", "mul_u128"}
        => out.kind = "value"

\* C4: to_affine has returned the sentinel pair for a point with Z = 0 that is
\* not the canonical infinity
C4_Witness ==
    /\ Called("to_affine")
    /\ IsInfinity(args.self)
    /\ args.self # G1Infinity
    /\ out.kind = "value"
    /\ out.val = <<FpZero, FpZero>>

\* C5: add(p, q) and add(q, p) have the same affine image
C5_AddCommutes ==
    Called("add")
        => /\ out.kind = "value"
           /\ ToAffine(out.val) = ToAffine(Add(args.other, args.self))

\* C5: the general case of add: two finite points of different affine x, in
\* different Jacobian scalings, with a finite sum
C5_Witness ==
    /\ Called("add")
    /\ ~IsInfinity(args.self)
    /\ ~IsInfinity(args.other)
    /\ args.self.z # args.other.z
    /\ args.self.z # 1
    /\ ToAffine(args.self)[1] # ToAffine(args.other)[1]
    /\ out.kind = "value"
    /\ ~IsInfinity(out.val)
    /\ ToAffine(out.val)[2] # 0

\* C5: add of one affine point in two different Jacobian representations
C5_WitnessSamePoint ==
    /\ Called("add")
    /\ ~IsInfinity(args.self)
    /\ ~IsInfinity(args.other)
    /\ args.self # args.other
    /\ ToAffine(args.self) = ToAffine(args.other)
    /\ out.kind = "value"
    /\ ~IsInfinity(out.val)

\* C6: add(p, q) is infinity when q is p with Y negated
C6_AddNegatedIsInfinity ==
    Called("add") /\ args.other = Negated(args.self)
        => out.kind = "value" /\ IsInfinity(out.val)

\* C6: a finite point with Y # 0 has been added to its negation
C6_Witness ==
    /\ Called("add")
    /\ args.other = Negated(args.self)
    /\ args.self.y # 0
    /\ args.self.z # 0
    /\ out.kind = "value"
    /\ out.val = G1Infinity

\* C6: the case Y = 0, where q = p and add goes through double
C6_WitnessYZero ==
    /\ Called("add")
    /\ args.other = Negated(args.self)
    /\ args.self.y = 0
    /\ args.self.z # 0
    /\ out.kind = "value"
    /\ IsInfinity(out.val)

\* C7: mul_u128(p, 0) is infinity, and mul_u128(p, 1), mul_u128(p, 2),
\* mul_u128(p, 3) are affine-equal to p, add(p, p), add(add(p, p), p)
C7_SmallScalars ==
    Called("mul_u128")
        => /\ out.kind = "value"
           /\ args.scalar = 0 => IsInfinity(out.val)
           /\ args.scalar = 1 => ToAffine(out.val) = ToAffine(args.self)
           /\ args.scalar = 2
                => ToAffine(out.val) = ToAffine(Add(args.self, args.self))
           /\ args.scalar = 3
                => ToAffine(out.val)
                     = ToAffine(Add(Add(args.self, args.self), args.self))

\* C7: a finite point has been multiplied by 3, with a finite product that is
\* not the point itself
C7_Witness ==
    /\ Called("mul_u128")
    /\ args.scalar = 3
    /\ ~IsInfinity(args.self)
    /\ out.kind = "value"
    /\ ~IsInfinity(out.val)
    /\ ToAffine(out.val) # ToAffine(args.self)

\* C8: double(p) and add(p, p) have the same affine image
C8_DoubleIsSelfAdd ==
    Called("double")
        => /\ out.kind = "value"
           /\ ToAffine(out.val) = ToAffine(Add(args.self, args.self))

\* C8: a finite point with Y # 0 has been doubled
C8_Witness ==
    /\ Called("double")
    /\ ~IsInfinity(args.self)
    /\ args.self.y # 0
    /\ out.kind = "value"
    /\ ~IsInfinity(out.val)

\* C9: the double of a finite point on the curve is on the curve
C9_DoubleOnCurve ==
    Called("double") /\ ~IsInfinity(args.self) /\ IsOnCurve(args.self)
        => out.kind = "value" /\ IsOnCurve(out.val)

\* p added to itself, k operands in all, by repeated add
RECURSIVE RepeatedAdd(_, _)
RepeatedAdd(p, k) ==
    IF k <= 1 THEN p ELSE Add(RepeatedAdd(p, k - 1), p)

\* C10: for a point p on the curve and a scalar k >= 1, mul_u128(p, k) is
\* affine-equal to the sum of k operands p by repeated add
C10_MulIsRepeatedAdd ==
    Called("mul_u128") /\ IsOnCurve(args.self) /\ args.scalar >= 1
        => /\ out.kind = "value"
           /\ ToAffine(out.val) = ToAffine(RepeatedAdd(args.self, args.scalar))

=============================================================================
